---- MODULE Spec2Model ----
(***************************************************************************)
(* A model of the metrics pipeline of youtube_analyzer.py: the statistics  *)
(* aggregators extract_account_metrics and calculate_video_averages, and   *)
(* the date filter of retrieve_youtube_data, the link normalizer           *)
(* extract_direct_url, the run of one request through analyze_channel and  *)
(* analyze_youtube_channel, and the batch loop analyze_search_results.     *)
(*                                                                         *)
(* Strings are sequences of character codes, so that int(), strptime(),    *)
(* isoformat() and the comparison of two strings are computed as Python    *)
(* computes them.  A quotient a / b of two Python ints is carried as the   *)
(* fraction [num |-> a, den |-> b]; a zero denominator is the              *)
(* ZeroDivisionError the division raises.                                  *)
(***************************************************************************)
EXTENDS Integers, Sequences, FiniteSets, TLC

VARIABLES
    pc,               \* position of the run
    videos,           \* data['video_stats']['items'] handed to the aggregators
    video_metrics,    \* metrics['video_metrics'] of extract_account_metrics
    video_averages,   \* metrics['video_averages'] of calculate_video_averages
    recent_videos,    \* metrics.get('recent_videos', []), as its readers take it
    error,            \* exception that escaped an aggregator, "none" otherwise
    entry,            \* caller of the analysis: "http" (app.py) or "cli" (main)
    days_ago,         \* None or <<n>>, the int n of the 'days' parameter
    start_date,       \* None or the string of the 'start_date' parameter
    end_date,         \* None or the string of the 'end_date' parameter
    now,              \* the value datetime.now() returned, None before the call
    playlist_items,   \* the items the provider returned for the uploads playlist
    videos_response,  \* videos_response['items']
    cutoff_date_str,  \* the three bounds the filter compares with
    start_date_str,
    end_date_str,
    youtube_redirect_url, \* the argument of extract_direct_url
    direct_url,           \* its result
    direct_url_again,     \* the result of extract_direct_url(direct_url)
    request,              \* request.args of GET /api/channel
    playwright_available, \* PLAYWRIGHT_AVAILABLE, fixed when the module loads
    calls,                \* the calls issued to the provider and the scraper
    fetch,                \* how the fetch steps of retrieve_youtube_data ended
    scrape,               \* how the scrape of the about page ended and what it saw
    data,                 \* what retrieve_youtube_data returned
    result,               \* what analyze_youtube_channel returned
    status,               \* status of the HTTP response, 0 before it
    channels,             \* the channel ids given to analyze_search_results
    analyzed,             \* the channels its loop has been through
    results,              \* its results dictionary
    result_keys,          \* list(results): the keys in the order of insertion
    export_data,          \* export_data['channels'] of the export
    video_ids,            \* the ids of the filtered videos
    stats_calls,          \* the id lists of the videos().list calls issued
    all_video_stats,      \* the items those calls returned so far
    response_video_stats  \* response['video_stats']

aggVars == <<videos, video_metrics, video_averages, recent_videos, error>>

filterVars == <<entry, days_ago, start_date, end_date, now, playlist_items,
                videos_response, cutoff_date_str, start_date_str, end_date_str>>

\* the filter's variables that a request does not carry
filterRest == <<entry, now, playlist_items, videos_response, cutoff_date_str,
                start_date_str, end_date_str>>

linkVars == <<youtube_redirect_url, direct_url, direct_url_again>>

runVars == <<request, playwright_available, calls, fetch, scrape, data, result,
            status>>

batchVars == <<channels, analyzed, results, result_keys, export_data>>

statsVars == <<video_ids, stats_calls, all_video_stats, response_video_stats>>

\* what the aggregators, the date filter and the link normalizer leave alone
notAgg == <<filterVars, linkVars, runVars, batchVars, statsVars>>
notFilter == <<aggVars, linkVars, runVars, batchVars, statsVars>>
notLink == <<aggVars, filterVars, runVars, batchVars, statsVars>>
notRun == <<aggVars, filterRest, linkVars, batchVars, statsVars>>
notBatch == <<aggVars, filterVars, linkVars, runVars, statsVars>>
notStats == <<aggVars, filterVars, linkVars, runVars, batchVars>>

vars == <<pc, aggVars, filterVars, linkVars, runVars, batchVars, statsVars>>

----------------------------------------------------------------------------
(* Bounds of the aggregator inputs *)

MaxVideos == 2
MaxViews == 2
MaxLikes == 1
MaxComments == 1

----------------------------------------------------------------------------
(* Strings of decimal digits and int() *)

\* code of the character '0' + n
Digit(n) == 48 + n

\* a key that the provider left out of a dictionary
Absent == <<-1>>

\* Python's None, where a string or a wrapped int may stand
None == <<-1>>

\* the metrics dictionary has no such key
NoKey == [absent |-> TRUE]

RECURSIVE DecimalString(_)
\* str(n) for n >= 0: the provider sends every count as a decimal string
DecimalString(n) ==
    IF n < 10 THEN <<Digit(n)>>
    ELSE Append(DecimalString(n \div 10), Digit(n % 10))

RECURSIVE IntOf(_)
\* int(s) of a string of decimal digits
IntOf(s) ==
    IF Len(s) = 0 THEN 0
    ELSE 10 * IntOf(SubSeq(s, 1, Len(s) - 1)) + (s[Len(s)] - 48)

\* dict.get(key, default)
Get(value, default) == IF value = Absent THEN default ELSE value

StatOfMutDefaultOne(video, key) == IntOf(Get(video[key], <<Digit(1)>>))

\* int(video.get('statistics', {}).get(key, 0))
StatOf(video, key) == IntOf(Get(video[key], <<Digit(0)>>))

----------------------------------------------------------------------------
(* Python arithmetic *)

\* a / b
Div(a, b) == [num |-> a, den |-> b]

\* the literal 0 of an 'else 0' branch
Zero == [num |-> 0, den |-> 1]

Raises(q) == q.den = 0

RECURSIVE SumStat(_, _)
\* sum(int(video...get(key, 0)) for video in videos)
SumStat(vs, key) ==
    IF vs = <<>> THEN 0 ELSE StatOf(Head(vs), key) + SumStat(Tail(vs), key)

RECURSIVE MaxOf(_)
\* max(...) over a non-empty sequence of ints
MaxOf(s) ==
    IF Len(s) = 1 THEN s[1]
    ELSE LET m == MaxOf(Tail(s)) IN IF m > s[1] THEN m ELSE s[1]

RECURSIVE MinOf(_)
\* min(...) over a non-empty sequence of ints
MinOf(s) ==
    IF Len(s) = 1 THEN s[1]
    ELSE LET m == MinOf(Tail(s)) IN IF m < s[1] THEN m ELSE s[1]

ViewCounts(vs) == [k \in 1..Len(vs) |-> StatOf(vs[k], "viewCount")]

----------------------------------------------------------------------------
(* extract_account_metrics: the 'video_metrics' summary *)

EngagementRateOfMetricsMutGuardLikes(total_likes, total_comments, total_views) ==
    IF total_likes + total_comments > 0
    THEN Div(total_likes + total_comments, total_views) ELSE Zero

\* (total_likes + total_comments) / total_views if total_views > 0 else 0
EngagementRateOfMetrics(total_likes, total_comments, total_views) ==
    IF total_views > 0
    THEN Div(total_likes + total_comments, total_views) ELSE Zero

MinViewsOfMetricsMutMax(vs) ==
    IF vs # <<>> THEN MaxOf(ViewCounts(vs)) ELSE 0

\* min(int(video...get('viewCount', 0)) for video in videos) if videos else 0
MinViewsOfMetrics(vs) ==
    IF vs # <<>> THEN MinOf(ViewCounts(vs)) ELSE 0

\* the dictionary stored under metrics['video_metrics']
VideoMetricsOf(vs) ==
    LET total_views == SumStat(vs, "viewCount")
        total_likes == SumStat(vs, "likeCount")
        total_comments == SumStat(vs, "commentCount")
    IN  [analyzed_videos_count |-> Len(vs),
         avg_views |-> IF vs # <<>> THEN Div(total_views, Len(vs)) ELSE Zero,
         max_views |-> IF vs # <<>> THEN MaxOf(ViewCounts(vs)) ELSE 0,
         min_views |-> MinViewsOfMetrics(vs),
         total_views |-> total_views,
         avg_likes |-> IF vs # <<>> THEN Div(total_likes, Len(vs)) ELSE Zero,
         avg_comments |-> IF vs # <<>> THEN Div(total_comments, Len(vs)) ELSE Zero,
         engagement_rate |->
             EngagementRateOfMetrics(total_likes, total_comments, total_views)]

VideoMetricsRaises(m) ==
    \/ Raises(m.avg_views)
    \/ Raises(m.avg_likes)
    \/ Raises(m.avg_comments)
    \/ Raises(m.engagement_rate)

\* the video part of extract_account_metrics(data): nothing is stored for an
\* empty list ('if videos:'), an exception of the arithmetic escapes
(* extract_account_metrics: the 'recent_videos' list *)

MinLen(a, b) == IF Len(a) < Len(b) THEN Len(a) ELSE Len(b)

\* a < b of two Python strings: the first differing character decides, a
\* proper prefix is smaller
StrLess(a, b) ==
    \/ \E k \in 1..MinLen(a, b) :
          /\ \A j \in 1..(k - 1) : a[j] = b[j]
          /\ a[k] < b[k]
    \/ /\ Len(a) < Len(b)
       /\ \A j \in 1..Len(a) : a[j] = b[j]

\* snippet.get('publishedAt', 'Unknown')
PublishedAtOf(video) ==
    IF "publishedAt" \in DOMAIN video THEN video.publishedAt ELSE <<85, 110, 107, 110, 111, 119, 110>>

\* video.get('id', 'Unknown')
VideoIdOf(video) == IF "id" \in DOMAIN video THEN video.id ELSE <<85, 110, 107, 110, 111, 119, 110>>

\* the dictionary appended for one video
RecentVideoOf(video) ==
    [published_at |-> PublishedAtOf(video),
     views |-> StatOf(video, "viewCount"),
     likes |-> StatOf(video, "likeCount"),
     comments |-> StatOf(video, "commentCount"),
     video_id |-> VideoIdOf(video)]

\* the number of leading elements of a list sorted newest first that stay
\* in front of x
StaysInFront(sorted, x) ==
    Cardinality({k \in 1..Len(sorted) : ~StrLess(sorted[k].published_at, x.published_at)})

PlaceNewestFirstMutBeforeEqual(sorted, x) ==
    LET n == Cardinality({k \in 1..Len(sorted) :
                             StrLess(x.published_at, sorted[k].published_at)})
    IN  SubSeq(sorted, 1, n) \o <<x>> \o SubSeq(sorted, n + 1, Len(sorted))

\* x put into a list sorted newest first: behind every element that is not
\* older, the equal ones included
PlaceNewestFirst(sorted, x) ==
    LET n == StaysInFront(sorted, x)
    IN  SubSeq(sorted, 1, n) \o <<x>> \o SubSeq(sorted, n + 1, Len(sorted))

RECURSIVE SortNewestFirst(_, _)
\* list.sort(key=lambda x: x['published_at'], reverse=True): the sort is
\* stable, and with reverse=True equal keys keep their order too
SortNewestFirst(list, sorted) ==
    IF list = <<>> THEN sorted
    ELSE SortNewestFirst(Tail(list), PlaceNewestFirst(sorted, Head(list)))

\* the loop of lines 623-647 and the sort of line 650
RecentVideosOf(vs) ==
    SortNewestFirst([k \in 1..Len(vs) |-> RecentVideoOf(vs[k])], <<>>)

----------------------------------------------------------------------------
ExtractAccountMetrics ==
    /\ pc = "extract"
    /\ IF videos # <<>>
       THEN LET m == VideoMetricsOf(videos)
            IN  IF VideoMetricsRaises(m)
                THEN /\ error' = "ZeroDivisionError"
                     /\ pc' = "raised"
                     /\ UNCHANGED <<video_metrics, recent_videos>>
                ELSE /\ video_metrics' = m
                     /\ recent_videos' = RecentVideosOf(videos)
                     /\ pc' = "averages"
                     /\ UNCHANGED error
       ELSE /\ pc' = "averages"
            /\ UNCHANGED <<video_metrics, recent_videos, error>>
    /\ UNCHANGED <<videos, video_averages, notAgg>>

----------------------------------------------------------------------------
(* Python strings *)

IsDigit(c) == c \in 48..57

\* the index of the first c in s, Len(s) + 1 when there is none
IndexOf(s, c) ==
    IF \E k \in 1..Len(s) : s[k] = c
    THEN CHOOSE k \in 1..Len(s) : s[k] = c /\ \A j \in 1..(k - 1) : s[j] # c
    ELSE Len(s) + 1

RECURSIVE Split(_, _)
\* s.split(c)
Split(s, c) ==
    LET k == IndexOf(s, c)
    IN  IF k > Len(s) THEN <<s>>
        ELSE <<SubSeq(s, 1, k - 1)>> \o Split(SubSeq(s, k + 1, Len(s)), c)

----------------------------------------------------------------------------
(* The duration parser inside calculate_video_averages *)

CharT == 84
CharH == 72
CharM == 77
CharP == 80
CharS == 83

\* c in s
Has(s, c) == \E k \in 1..Len(s) : s[k] = c

\* int(s) returns: s is a non-empty string of decimal digits (the strings
\* taken here hold no sign, blank or underscore)
IntParses(s) == Len(s) > 0 /\ \A k \in 1..Len(s) : IsDigit(s[k])

\* content_details.get('duration', ''): a video without the key gives ''
DurationOf(video) ==
    IF "duration" \in DOMAIN video THEN video.duration ELSE <<>>

\* an exception raised inside the try of the parser
ParseFailed == [ok |-> FALSE, duration_seconds |-> 0, duration |-> <<>>]

HoursStageMutMinutes(duration) ==
    IF Has(duration, CharH)
    THEN LET split_h == Split(duration, CharH)
             split_t == Split(split_h[1], CharT)
         IN  IF Len(split_t) < 2 THEN ParseFailed
             ELSE IF ~IntParses(split_t[2]) THEN ParseFailed
             ELSE [ok |-> TRUE, duration_seconds |-> IntOf(split_t[2]) * 60,
                   duration |-> split_h[2]]
    ELSE LET split_t == Split(duration, CharT)
         IN  IF Len(split_t) < 2 THEN ParseFailed
             ELSE [ok |-> TRUE, duration_seconds |-> 0, duration |-> split_t[2]]

\* 'if 'H' in duration: ... else: duration = duration.split('T')[1]'
HoursStage(duration) ==
    IF Has(duration, CharH)
    THEN LET split_h == Split(duration, CharH)
             split_t == Split(split_h[1], CharT)
         IN  IF Len(split_t) < 2 THEN ParseFailed
             ELSE IF ~IntParses(split_t[2]) THEN ParseFailed
             ELSE [ok |-> TRUE, duration_seconds |-> IntOf(split_t[2]) * 3600,
                   duration |-> split_h[2]]
    ELSE LET split_t == Split(duration, CharT)
         IN  IF Len(split_t) < 2 THEN ParseFailed
             ELSE [ok |-> TRUE, duration_seconds |-> 0, duration |-> split_t[2]]

\* 'if 'M' in duration: ...'
MinutesStage(st) ==
    IF ~st.ok THEN st
    ELSE IF Has(st.duration, CharM)
    THEN LET split_m == Split(st.duration, CharM)
         IN  IF ~IntParses(split_m[1]) THEN ParseFailed
             ELSE [ok |-> TRUE,
                   duration_seconds |-> st.duration_seconds + IntOf(split_m[1]) * 60,
                   duration |-> split_m[2]]
    ELSE st

\* 'if 'S' in duration: ...'
SecondsStage(st) ==
    IF ~st.ok THEN st
    ELSE IF Has(st.duration, CharS)
    THEN LET split_s == Split(st.duration, CharS)
         IN  IF ~IntParses(split_s[1]) THEN ParseFailed
             ELSE [ok |-> TRUE,
                   duration_seconds |-> st.duration_seconds + IntOf(split_s[1]),
                   duration |-> st.duration]
    ELSE st

\* what one video adds to total_duration_seconds: nothing when the string is
\* empty or the try block raised
DurationSecondsOf(video) ==
    LET duration == DurationOf(video)
    IN  IF duration = <<>> THEN 0
        ELSE LET st == SecondsStage(MinutesStage(HoursStage(duration)))
             IN  IF st.ok THEN st.duration_seconds ELSE 0

----------------------------------------------------------------------------
(* calculate_video_averages *)

\* the value returned for 'not videos'
EmptyAverages ==
    [count |-> 0, avg_views |-> Zero, avg_likes |-> Zero,
     avg_comments |-> Zero, engagement_rate |-> Zero,
     max_views |-> 0, min_views |-> 0, avg_duration_seconds |-> Zero,
     like_to_view_ratio |-> Zero, comment_to_view_ratio |-> Zero]

RECURSIVE ProcessVideos(_, _)
\* the loop 'for video in videos' over the counters
ProcessVideos(vs, acc) ==
    IF vs = <<>> THEN acc
    ELSE LET video == Head(vs)
             view_count == StatOf(video, "viewCount")
         IN  ProcessVideos(Tail(vs),
                 [total_views |-> acc.total_views + view_count,
                  total_likes |-> acc.total_likes + StatOf(video, "likeCount"),
                  total_comments |->
                      acc.total_comments + StatOf(video, "commentCount"),
                  total_duration_seconds |->
                      acc.total_duration_seconds + DurationSecondsOf(video),
                  view_counts |-> Append(acc.view_counts, view_count)])

\* total_likes / total_views if total_views > 0 else 0
LikeToViewRatio(total_likes, total_views) ==
    IF total_views > 0 THEN Div(total_likes, total_views) ELSE Zero

\* the dictionary returned by calculate_video_averages(videos)
CalculateVideoAveragesOf(vs) ==
    IF vs = <<>> THEN EmptyAverages
    ELSE LET acc == ProcessVideos(vs,
                        [total_views |-> 0, total_likes |-> 0,
                         total_comments |-> 0, total_duration_seconds |-> 0,
                         view_counts |-> <<>>])
             count == Len(vs)
         IN  [count |-> count,
              avg_views |-> IF count > 0 THEN Div(acc.total_views, count) ELSE Zero,
              avg_likes |-> IF count > 0 THEN Div(acc.total_likes, count) ELSE Zero,
              avg_comments |->
                  IF count > 0 THEN Div(acc.total_comments, count) ELSE Zero,
              engagement_rate |->
                  IF acc.total_views > 0
                  THEN Div(acc.total_likes + acc.total_comments, acc.total_views)
                  ELSE Zero,
              max_views |->
                  IF acc.view_counts # <<>> THEN MaxOf(acc.view_counts) ELSE 0,
              min_views |->
                  IF acc.view_counts # <<>> THEN MinOf(acc.view_counts) ELSE 0,
              avg_duration_seconds |->
                  IF count > 0 THEN Div(acc.total_duration_seconds, count)
                  ELSE Zero,
              like_to_view_ratio |->
                  LikeToViewRatio(acc.total_likes, acc.total_views),
              comment_to_view_ratio |->
                  IF acc.total_views > 0
                  THEN Div(acc.total_comments, acc.total_views) ELSE Zero]

VideoAveragesRaises(a) ==
    \/ Raises(a.avg_views)
    \/ Raises(a.avg_likes)
    \/ Raises(a.avg_comments)
    \/ Raises(a.engagement_rate)
    \/ Raises(a.avg_duration_seconds)
    \/ Raises(a.like_to_view_ratio)
    \/ Raises(a.comment_to_view_ratio)

\* metrics['video_averages'] = calculate_video_averages(videos)
CalculateVideoAverages ==
    /\ pc = "averages"
    /\ LET a == CalculateVideoAveragesOf(videos)
       IN  IF VideoAveragesRaises(a)
           THEN /\ error' = "ZeroDivisionError"
                /\ pc' = "raised"
                /\ UNCHANGED video_averages
           ELSE /\ video_averages' = a
                /\ pc' = "done"
                /\ UNCHANGED error
    /\ UNCHANGED <<videos, video_metrics, recent_videos, notAgg>>

----------------------------------------------------------------------------
(* The aggregation of one list of videos *)

CountStrings(max) == {Absent} \cup {DecimalString(n) : n \in 0..max}

VideoItems ==
    [viewCount : CountStrings(MaxViews),
     likeCount : CountStrings(MaxLikes),
     commentCount : CountStrings(MaxComments)]

VideoLists == UNION {[1..n -> VideoItems] : n \in 0..MaxVideos}

\* views [100, 50, 10], likes [10, 5, 1], comments [2, 1, 0]
ScenarioVideos ==
    <<[viewCount |-> DecimalString(100), likeCount |-> DecimalString(10),
       commentCount |-> DecimalString(2)],
      [viewCount |-> DecimalString(50), likeCount |-> DecimalString(5),
       commentCount |-> DecimalString(1)],
      [viewCount |-> DecimalString(10), likeCount |-> DecimalString(1),
       commentCount |-> DecimalString(0)]>>

\* no request is being filtered
FilterIdle ==
    /\ entry = "cli"
    /\ days_ago = None
    /\ start_date = None
    /\ end_date = None
    /\ now = None
    /\ playlist_items = <<>>
    /\ videos_response = <<>>
    /\ cutoff_date_str = None
    /\ start_date_str = None
    /\ end_date_str = None

\* no link is being normalized
LinkIdle ==
    /\ youtube_redirect_url = None
    /\ direct_url = None
    /\ direct_url_again = None

\* the None returned where a dictionary is returned otherwise
NoResult == [none |-> TRUE]

\* the request of a process that serves none
IdleRequest ==
    [channel_id |-> None, username |-> None, handle |-> None, days |-> None,
     start_date |-> None, end_date |-> None, extract_links |-> FALSE]

\* the about page has not been scraped
NoScrape == [outcome |-> "none", links |-> <<>>]

\* no request is being served
RunIdle ==
    /\ request = IdleRequest
    /\ playwright_available = FALSE
    /\ calls = <<>>
    /\ fetch = "none"
    /\ scrape = NoScrape
    /\ data = NoResult
    /\ result = NoResult
    /\ status = 0

\* no batch is being analyzed
BatchIdle ==
    /\ channels = <<>>
    /\ analyzed = <<>>
    /\ results = <<>>
    /\ result_keys = <<>>
    /\ export_data = <<>>

\* no statistics are being fetched
StatsIdle ==
    /\ video_ids = <<>>
    /\ stats_calls = <<>>
    /\ all_video_stats = <<>>
    /\ response_video_stats = NoKey

InitAgg ==
    /\ pc = "extract"
    /\ videos \in VideoLists \cup {ScenarioVideos}
    /\ video_metrics = NoKey
    /\ video_averages = NoKey
    /\ recent_videos = <<>>
    /\ error = "none"
    /\ FilterIdle
    /\ LinkIdle
    /\ RunIdle
    /\ BatchIdle
    /\ StatsIdle

NextAgg == ExtractAccountMetrics \/ CalculateVideoAverages

SpecAgg == InitAgg /\ [][NextAgg]_vars

----------------------------------------------------------------------------
(* The aggregation of videos that carry a duration *)

MaxComponent == 1
MaxDurVideos == 2

\* a component of a duration that the provider left out, or its number
Components(values) == {Absent} \cup {DecimalString(n) : n \in values}

Designated(component, designator) ==
    IF component = Absent THEN <<>> ELSE Append(component, designator)

\* 'PT' followed by the components that are there, each with its designator
DurationString(h, m, s) ==
    <<CharP, CharT>> \o Designated(h, CharH) \o Designated(m, CharM)
                     \o Designated(s, CharS)

\* 'PT5M13S'
ScenarioDuration == DurationString(Absent, DecimalString(5), DecimalString(13))

Durations ==
    { DurationString(h, m, s) : h \in Components(0..MaxComponent),
                                m \in Components(0..MaxComponent),
                                s \in Components(0..MaxComponent) }
    \cup { ScenarioDuration,
           \* ''
           <<>>,
           \* 'PT5M13'
           <<80, 84, 53, 77, 49, 51>>,
           \* 'P1DT2H'
           <<80, 49, 68, 84, 50, 72>>,
           \* 'PT1H2H'
           <<80, 84, 49, 72, 50, 72>>,
           \* 'PT5M1H'
           <<80, 84, 53, 77, 49, 72>>,
           \* '5M'
           <<53, 77>>,
           \* 'PTxM'
           <<80, 84, 120, 77>>,
           \* 'PTS'
           <<80, 84, 83>>,
           \* 'PT1M30'
           <<80, 84, 49, 77, 51, 48>> }

\* the statistics of every video of these lists: 2 views, 1 like, 1 comment
DurStatistics ==
    [viewCount |-> DecimalString(2), likeCount |-> DecimalString(1),
     commentCount |-> DecimalString(1)]

WithDuration(duration) ==
    [viewCount |-> DurStatistics.viewCount, likeCount |-> DurStatistics.likeCount,
     commentCount |-> DurStatistics.commentCount, duration |-> duration]

\* a video with any of the durations, or without contentDetails.duration
DurVideoItems == {WithDuration(duration) : duration \in Durations} \cup {DurStatistics}

\* the videos around it: no duration, 'PT1H', 'PT5M13S' or 'PT5M13'
OtherVideoItems ==
    { DurStatistics,
      WithDuration(DurationString(DecimalString(1), Absent, Absent)),
      WithDuration(ScenarioDuration),
      WithDuration(<<80, 84, 53, 77, 49, 51>>) }

\* lists of 1..MaxDurVideos videos, one of them with any of the durations
DurVideoLists ==
    UNION { UNION { { [k \in 1..n |-> IF k = pos THEN video ELSE others[k]] :
                        video \in DurVideoItems, others \in [1..n -> OtherVideoItems] } :
                    pos \in 1..n } :
            n \in 1..MaxDurVideos }

InitDur ==
    /\ pc = "extract"
    /\ videos \in DurVideoLists
    /\ video_metrics = NoKey
    /\ video_averages = NoKey
    /\ recent_videos = <<>>
    /\ error = "none"
    /\ FilterIdle
    /\ LinkIdle
    /\ RunIdle
    /\ BatchIdle
    /\ StatsIdle

SpecDur == InitDur /\ [][NextAgg]_vars

----------------------------------------------------------------------------
(* Strings: comparison and zero-padded numbers *)

CharDash == 45
CharDot == 46
CharColon == 58
CharSpace == 32
CharZ == 90

RECURSIVE Pad(_, _)
\* '%0<width>d' % n
Pad(n, width) ==
    IF width = 0 THEN <<>> ELSE Append(Pad(n \div 10, width - 1), Digit(n % 10))

----------------------------------------------------------------------------
(* datetime: ordinals of the proleptic Gregorian calendar *)

IsLeap(y) == y % 4 = 0 /\ (y % 100 # 0 \/ y % 400 = 0)

DaysInMonth(y, m) ==
    IF m = 2 THEN (IF IsLeap(y) THEN 29 ELSE 28)
    ELSE IF m \in {4, 6, 9, 11} THEN 30 ELSE 31

DaysBeforeYear(y) ==
    (y - 1) * 365 + (y - 1) \div 4 - (y - 1) \div 100 + (y - 1) \div 400

RECURSIVE DaysBeforeMonth(_, _)
DaysBeforeMonth(y, m) ==
    IF m = 1 THEN 0 ELSE DaysBeforeMonth(y, m - 1) + DaysInMonth(y, m - 1)

\* date.toordinal(): 1 for 0001-01-01
ToOrdinal(y, m, d) == DaysBeforeYear(y) + DaysBeforeMonth(y, m) + d

\* the year, month and day of an ordinal
FromOrdinal(ord) ==
    LET n0 == ord - 1
        n400 == n0 \div 146097
        r400 == n0 % 146097
        n100 == r400 \div 36524
        r100 == r400 % 36524
        n4 == r100 \div 1461
        r4 == r100 % 1461
        n1 == r4 \div 365
        n == r4 % 365
        year == n400 * 400 + 1 + n100 * 100 + n4 * 4 + n1
    IN  IF n1 = 4 \/ n100 = 4
        THEN [year |-> year - 1, month |-> 12, day |-> 31]
        ELSE LET month == CHOOSE m \in 1..12 :
                     /\ DaysBeforeMonth(year, m) <= n
                     /\ n < DaysBeforeMonth(year, m) + DaysInMonth(year, m)
             IN  [year |-> year, month |-> month,
                  day |-> n - DaysBeforeMonth(year, month) + 1]

\* datetime(year, month, day, hour, minute, second, microsecond)
DateTime(y, mo, d, h, mi, sec, us) ==
    [year |-> y, month |-> mo, day |-> d,
     hour |-> h, minute |-> mi, second |-> sec, microsecond |-> us]

\* dt - datetime.timedelta(days=n)
MinusDays(dt, n) ==
    LET ymd == FromOrdinal(ToOrdinal(dt.year, dt.month, dt.day) - n)
    IN  [dt EXCEPT !.year = ymd.year, !.month = ymd.month, !.day = ymd.day]

\* dt.isoformat(): the fraction is written only when the microsecond is not 0
IsoFormat(dt) ==
    Pad(dt.year, 4) \o <<CharDash>> \o Pad(dt.month, 2) \o <<CharDash>>
        \o Pad(dt.day, 2) \o <<CharT>> \o Pad(dt.hour, 2) \o <<CharColon>>
        \o Pad(dt.minute, 2) \o <<CharColon>> \o Pad(dt.second, 2)
        \o (IF dt.microsecond # 0
            THEN <<CharDot>> \o Pad(dt.microsecond, 6) ELSE <<>>)

\* the result of a strptime that raised ValueError
ValueError == [raised |-> "ValueError"]

\* the month of '%m': 1[0-2] | 0[1-9] | [1-9]
MonthToken(t) ==
    \/ Len(t) = 1 /\ t[1] \in 49..57
    \/ Len(t) = 2 /\ t[1] = 49 /\ t[2] \in 48..50
    \/ Len(t) = 2 /\ t[1] = 48 /\ t[2] \in 49..57

\* the day of '%d': 3[01] | [12]\d | 0[1-9] | [1-9] | ' '[1-9]
DayToken(t) ==
    \/ Len(t) = 1 /\ t[1] \in 49..57
    \/ Len(t) = 2 /\ t[1] = 51 /\ t[2] \in 48..49
    \/ Len(t) = 2 /\ t[1] \in 49..50 /\ IsDigit(t[2])
    \/ Len(t) = 2 /\ t[1] \in {48, CharSpace} /\ t[2] \in 49..57

\* int() of a token of '%m' or '%d'
TokenValue(t) ==
    IntOf(SelectSeq(t, IsDigit))

\* datetime.datetime.strptime(s, "%Y-%m-%d"): four digits, '-', a month,
\* '-', a day and nothing more; then the date must exist
Strptime(s) ==
    IF \/ Len(s) < 8
       \/ \E k \in 1..4 : ~ IsDigit(s[k])
       \/ s[5] # CharDash
    THEN ValueError
    ELSE LET dash == IF s[7] = CharDash THEN 7 ELSE 8
             mtok == SubSeq(s, 6, dash - 1)
             dtok == SubSeq(s, dash + 1, Len(s))
             y == IntOf(SubSeq(s, 1, 4))
         IN  IF s[dash] # CharDash \/ ~ MonthToken(mtok) \/ ~ DayToken(dtok)
             THEN ValueError
             ELSE IF y < 1 \/ TokenValue(dtok) > DaysInMonth(y, TokenValue(mtok))
             THEN ValueError
             ELSE DateTime(y, TokenValue(mtok), TokenValue(dtok), 0, 0, 0, 0)

----------------------------------------------------------------------------
(* retrieve_youtube_data: the date filter over the uploads of a channel *)

MaxItems == 2
MaxDays == 1

\* 'if start_date:' of the request handlers: neither None nor ''
Truthy(str) == str # None /\ str # <<>>

\* cutoff_date_str: (datetime.now() - timedelta(days=days_ago)).isoformat() + 'Z'
CutoffDateStr(days, t) ==
    IF days # None THEN IsoFormat(MinusDays(t, days[1])) \o <<CharZ>> ELSE None

\* start_date_str: None is kept when strptime raises ValueError
StartDateStr(sd) ==
    IF sd # None
    THEN LET start_date_obj == Strptime(sd)
         IN  IF start_date_obj = ValueError THEN None
             ELSE IsoFormat(start_date_obj) \o <<CharZ>>
    ELSE None

EndOfDayMutMidnight(dt) == dt

\* end_date_obj.replace(hour=23, minute=59, second=59)
EndOfDay(dt) == [dt EXCEPT !.hour = 23, !.minute = 59, !.second = 59]

\* end_date_str: None is kept when strptime raises ValueError
EndDateStr(ed) ==
    IF ed # None
    THEN LET end_date_obj == Strptime(ed)
         IN  IF end_date_obj = ValueError THEN None
             ELSE IsoFormat(EndOfDay(end_date_obj)) \o <<CharZ>>
    ELSE None

\* meets_criteria of one item: three tests on the strings
MeetsCriteria(published_at, c, sd, ed) ==
    /\ ~ (c # None /\ StrLess(published_at, c))
    /\ ~ (sd # None /\ StrLess(published_at, sd))
    /\ ~ (ed # None /\ StrLess(ed, published_at))

\* filtered_items after the loop over videos_response['items']
FilterItems(items, c, sd, ed) ==
    LET Meets(item) == MeetsCriteria(item.publishedAt, c, sd, ed)
    IN  SelectSeq(items, Meets)

DateFilterMutStoreAlways(items, has_window, c, sd, ed) ==
    IF has_window THEN FilterItems(items, c, sd, ed) ELSE <<>>

\* videos_response['items'] after lines 93-141: replaced only when a
\* constraint was given
DateFilter(items, has_window, c, sd, ed) ==
    IF has_window THEN FilterItems(items, c, sd, ed) ELSE items

\* 'days_ago is not None or start_date is not None or end_date is not None'
HasWindow == days_ago # None \/ start_date # None \/ end_date # None

\* analyze_channel of app.py: a start_date or end_date that is given and
\* does not parse is answered with status 400
ValidateRequest ==
    /\ pc = "request"
    /\ entry = "http"
    /\ IF \/ Truthy(start_date) /\ Strptime(start_date) = ValueError
          \/ Truthy(end_date) /\ Strptime(end_date) = ValueError
       THEN pc' = "rejected"
       ELSE pc' = "fetch_videos"
    /\ UNCHANGED <<notFilter, filterVars>>

\* main(): the command line hands its arguments over as they are
CliRequest ==
    /\ pc = "request"
    /\ entry = "cli"
    /\ pc' = "fetch_videos"
    /\ UNCHANGED <<notFilter, filterVars>>

\* the provider writes a publish instant in whole seconds, UTC, with 'Z'
PublishedAt(dt) == IsoFormat(dt) \o <<CharZ>>

PublishedInstants ==
    {DateTime(2023, 12, 31, 23, 59, 59, 0), DateTime(2024, 1, 1, 0, 0, 0, 0),
     DateTime(2024, 1, 15, 0, 0, 0, 0), DateTime(2024, 1, 31, 12, 0, 0, 0),
     DateTime(2024, 1, 31, 23, 59, 59, 0), DateTime(2024, 2, 1, 0, 0, 0, 0)}

\* the playlist items of a response, in the provider's order
ItemLists ==
    UNION {{[k \in 1..n |-> [videoId |-> k, publishedAt |-> PublishedAt(f[k])]] :
               f \in [1..n -> PublishedInstants]} : n \in 0..MaxItems}

\* videos_response = youtube.playlistItems().list(...).execute()
FetchVideos ==
    /\ pc = "fetch_videos"
    /\ \E items \in ItemLists :
          /\ playlist_items' = items
          /\ videos_response' = items
    /\ pc' = "filter"
    /\ UNCHANGED <<notFilter, entry, days_ago, start_date, end_date, now,
                   cutoff_date_str, start_date_str, end_date_str>>

\* the values datetime.now() may return
Nows ==
    {DateTime(2024, 2, 1, 12, 0, 0, 0), DateTime(2024, 2, 1, 12, 0, 0, 500000)}

\* lines 93-141 of retrieve_youtube_data
FilterVideos ==
    /\ pc = "filter"
    /\ \E t \in IF days_ago # None THEN Nows ELSE {None} :
          /\ now' = t
          /\ cutoff_date_str' = CutoffDateStr(days_ago, t)
    /\ start_date_str' = StartDateStr(start_date)
    /\ end_date_str' = EndDateStr(end_date)
    /\ videos_response' =
           DateFilter(videos_response, HasWindow,
                      cutoff_date_str', start_date_str', end_date_str')
    /\ pc' = "filtered"
    /\ UNCHANGED <<notFilter, entry, days_ago, start_date, end_date,
                   playlist_items>>

\* 'YYYY-MM-DD' of a date
DateStr(y, m, d) ==
    Pad(y, 4) \o <<CharDash>> \o Pad(m, 2) \o <<CharDash>> \o Pad(d, 2)

\* the start_date and end_date a caller may pass: none, the empty string,
\* two dates, and 30 February
DateParams ==
    {None, <<>>, DateStr(2024, 1, 1), DateStr(2024, 1, 31), DateStr(2024, 2, 30)}

DaysParams == {None} \cup {<<n>> : n \in 0..MaxDays}

AggIdle ==
    /\ videos = <<>>
    /\ video_metrics = NoKey
    /\ video_averages = NoKey
    /\ recent_videos = <<>>
    /\ error = "none"

InitFilter ==
    /\ pc = "request"
    /\ entry \in {"http", "cli"}
    /\ days_ago \in DaysParams
    /\ start_date \in DateParams
    /\ end_date \in DateParams
    /\ now = None
    /\ playlist_items = <<>>
    /\ videos_response = <<>>
    /\ cutoff_date_str = None
    /\ start_date_str = None
    /\ end_date_str = None
    /\ AggIdle
    /\ LinkIdle
    /\ RunIdle
    /\ BatchIdle
    /\ StatsIdle

NextFilter == ValidateRequest \/ CliRequest \/ FetchVideos \/ FilterVideos

SpecFilter == InitFilter /\ [][NextFilter]_vars

----------------------------------------------------------------------------
(* The recent videos of one list of videos with their publish instants *)

MaxRecent == 3

\* 'v1', 'v2', ...: the id of the k-th video of the response
VideoId(k) == <<118>> \o DecimalString(k)

\* the video_stats items of a response, in the provider's order
RecentVideoLists ==
    UNION {{[k \in 1..n |-> [viewCount |-> DecimalString(k), likeCount |-> Absent,
                             commentCount |-> DecimalString(0),
                             id |-> VideoId(k),
                             publishedAt |-> PublishedAt(f[k])]] :
               f \in [1..n -> PublishedInstants]} : n \in 0..MaxRecent}

InitRecent ==
    /\ pc = "extract"
    /\ videos \in RecentVideoLists
    /\ video_metrics = NoKey
    /\ video_averages = NoKey
    /\ recent_videos = <<>>
    /\ error = "none"
    /\ FilterIdle
    /\ LinkIdle
    /\ RunIdle
    /\ BatchIdle
    /\ StatsIdle

SpecRecent == InitRecent /\ [][NextAgg]_vars

----------------------------------------------------------------------------
(* The statistics of the filtered videos, fetched in chunks *)

MaxIds == 101

\* the provider takes at most 50 ids in one call
ChunkSize == 50

\* range(0, len(video_ids), 50)
ChunkStarts(ids) == {i \in 0..(Len(ids) - 1) : i % ChunkSize = 0}

ChunkAtMutShort(ids, i) ==
    SubSeq(ids, i + 1, IF i + ChunkSize - 1 < Len(ids) THEN i + ChunkSize - 1 ELSE Len(ids))

\* video_ids[i:i+50]
ChunkAt(ids, i) ==
    SubSeq(ids, i + 1, IF i + ChunkSize < Len(ids) THEN i + ChunkSize ELSE Len(ids))

\* video_id_chunks = [video_ids[i:i+50] for i in range(0, len(video_ids), 50)]
VideoIdChunks(ids) ==
    [c \in 1..Cardinality(ChunkStarts(ids)) |-> ChunkAt(ids, (c - 1) * ChunkSize)]

\* video_stats_response.get('items', []): the provider returns an item for
\* every id of the call, or for every id but the first
StatsItems(chunk, answer) ==
    LET asked == IF answer = "all" THEN chunk ELSE Tail(chunk)
    IN  [k \in 1..Len(asked) |-> [id |-> asked[k]]]

\* one round of 'for chunk in video_id_chunks'; an exception of execute()
\* is caught at lines 166-173, which return None
FetchVideoStats ==
    /\ pc = "stats"
    /\ Len(stats_calls) < Len(VideoIdChunks(video_ids))
    /\ LET chunk == VideoIdChunks(video_ids)[Len(stats_calls) + 1]
       IN  /\ stats_calls' = Append(stats_calls, chunk)
           /\ \E answer \in {"all", "first_missing", "HttpError"} :
                 IF answer = "HttpError"
                 THEN /\ pc' = "failed"
                      /\ UNCHANGED all_video_stats
                 ELSE /\ all_video_stats' = all_video_stats \o StatsItems(chunk, answer)
                      /\ pc' = "stats"
    /\ UNCHANGED <<video_ids, response_video_stats, notStats>>

\* response['video_stats'] = {'items': all_video_stats}, or {'items': []}
\* when there is no id
StoreVideoStats ==
    /\ pc = "stats"
    /\ Len(stats_calls) = Len(VideoIdChunks(video_ids))
    /\ response_video_stats' =
           [items |-> IF video_ids # <<>> THEN all_video_stats ELSE <<>>]
    /\ pc' = "stats_done"
    /\ UNCHANGED <<video_ids, stats_calls, all_video_stats, notStats>>

\* the ids of 0..MaxIds filtered videos: the k-th id is written k
VideoIdLists == {[k \in 1..n |-> k] : n \in 0..MaxIds}

InitStats ==
    /\ pc = "stats"
    /\ video_ids \in VideoIdLists
    /\ stats_calls = <<>>
    /\ all_video_stats = <<>>
    /\ response_video_stats = NoKey
    /\ AggIdle
    /\ FilterIdle
    /\ LinkIdle
    /\ RunIdle
    /\ BatchIdle

NextStats == FetchVideoStats \/ StoreVideoStats

SpecStats == InitStats /\ [][NextStats]_vars

----------------------------------------------------------------------------
(* extract_direct_url: urlparse, parse_qs and unquote over strings *)

MaxParams == 2

CharPercent == 37
CharAmp == 38
CharPlus == 43
CharEquals == 61
CharQuestion == 63
CharHash == 35

\* 'youtube.com/redirect'
RedirectMarker == <<121, 111, 117, 116, 117, 98, 101, 46, 99, 111, 109, 47, 114, 101, 100, 105, 114, 101, 99, 116>>

\* sub in s
Contains(s, sub) ==
    \E k \in 0..(Len(s) - Len(sub)) : SubSeq(s, k + 1, k + Len(sub)) = sub

\* urlparse(url).query: what stands between the first '?' and the first '#'
UrlQuery(url) ==
    LET nofrag == SubSeq(url, 1, IndexOf(url, CharHash) - 1)
    IN  SubSeq(nofrag, IndexOf(nofrag, CharQuestion) + 1, Len(nofrag))

IsHex(c) == c \in 48..57 \/ c \in 65..70 \/ c \in 97..102

HexValue(c) ==
    IF c \in 48..57 THEN c - 48 ELSE IF c \in 65..70 THEN c - 55 ELSE c - 87

RECURSIVE Unquote(_)
\* unquote(s): every %XY with two hex digits becomes the character of that
\* code, anything else is kept; the links taken here escape ASCII only
Unquote(s) ==
    IF s = <<>> THEN <<>>
    ELSE IF s[1] = CharPercent /\ Len(s) >= 3 /\ IsHex(s[2]) /\ IsHex(s[3])
    THEN <<16 * HexValue(s[2]) + HexValue(s[3])>> \o Unquote(SubSeq(s, 4, Len(s)))
    ELSE <<s[1]>> \o Unquote(Tail(s))

\* s.replace('+', ' ')
PlusToSpace(s) == [k \in 1..Len(s) |-> IF s[k] = CharPlus THEN CharSpace ELSE s[k]]

RECURSIVE ParseQsl(_)
\* parse_qsl over the fields of a query: a field without '=' or with an empty
\* value is dropped, name and value are unquoted with '+' read as a space
ParseQsl(fields) ==
    IF fields = <<>> THEN <<>>
    ELSE LET name_value == Head(fields)
             eq == IndexOf(name_value, CharEquals)
             name == SubSeq(name_value, 1, eq - 1)
             value == SubSeq(name_value, eq + 1, Len(name_value))
         IN  (IF eq <= Len(name_value) /\ Len(value) > 0
              THEN <<[name |-> Unquote(PlusToSpace(name)),
                      value |-> Unquote(PlusToSpace(value))]>>
              ELSE <<>>)
                 \o ParseQsl(Tail(fields))

\* parse_qs(query).get('q'): the values of the fields named q, in order
QValues(query) ==
    LET pairs == ParseQsl(Split(query, CharAmp))
        IsQ(pair) == pair.name = <<113>>
        qs == SelectSeq(pairs, IsQ)
    IN  [k \in 1..Len(qs) |-> qs[k].value]

\* 'youtube.com/redirect' in youtube_redirect_url
IsRedirectUrl(url) == Contains(url, RedirectMarker)

\* unquote(query_params['q'][0]), of a value parse_qs has unquoted already
DecodeQ(value) == Unquote(value)

\* extract_direct_url(youtube_redirect_url)
extract_direct_url(url) ==
    IF IsRedirectUrl(url)
    THEN LET q == QValues(UrlQuery(url))
         IN  IF q # <<>> THEN DecodeQ(q[1]) ELSE url
    ELSE url

\* 'https://www.youtube.com/redirect'
WrapperBase == <<104, 116, 116, 112, 115, 58, 47, 47, 119, 119, 119, 46, 121, 111, 117, 116, 117, 98, 101, 46, 99, 111, 109, 47, 114, 101, 100, 105, 114, 101, 99, 116>>

\* the links the normalizer is given: an address, up to MaxParams query
\* fields and possibly a fragment
UrlBases ==
    { WrapperBase,
      \* 'https://example.com/page'
      <<104, 116, 116, 112, 115, 58, 47, 47, 101, 120, 97, 109, 112, 108, 101, 46, 99, 111, 109, 47, 112, 97, 103, 101>>,
      \* 'https://notyoutube.com/redirect'
      <<104, 116, 116, 112, 115, 58, 47, 47, 110, 111, 116, 121, 111, 117, 116, 117, 98, 101, 46, 99, 111, 109, 47, 114, 101, 100, 105, 114, 101, 99, 116>> }

UrlFields ==
    { \* 'q=https%3A%2F%2Fexample.com'
      <<113, 61, 104, 116, 116, 112, 115, 37, 51, 65, 37, 50, 70, 37, 50, 70, 101, 120, 97, 109, 112, 108, 101, 46, 99, 111, 109>>,
      \* 'q='
      <<113, 61>>,
      \* 'q'
      <<113>>,
      \* 'q=a%2520b'
      <<113, 61, 97, 37, 50, 53, 50, 48, 98>>,
      \* 'q=%zz'
      <<113, 61, 37, 122, 122>>,
      \* 'event=video_description'
      <<101, 118, 101, 110, 116, 61, 118, 105, 100, 101, 111, 95, 100, 101, 115, 99, 114, 105, 112, 116, 105, 111, 110>>,
      \* 'ref=youtube.com/redirect'
      <<114, 101, 102, 61, 121, 111, 117, 116, 117, 98, 101, 46, 99, 111, 109, 47, 114, 101, 100, 105, 114, 101, 99, 116>>,
      \* 'q=https%3A%2F%2Fwww.youtube.com%2Fredirect%3Fq%3Dx'
      <<113, 61, 104, 116, 116, 112, 115, 37, 51, 65, 37, 50, 70, 37, 50, 70, 119, 119, 119, 46, 121, 111, 117, 116, 117, 98, 101, 46, 99, 111, 109, 37, 50, 70, 114, 101, 100, 105, 114, 101, 99, 116, 37, 51, 70, 113, 37, 51, 68, 120>> }

UrlFragments ==
    { <<>>,
      \* '#youtube.com/redirect'
      <<35, 121, 111, 117, 116, 117, 98, 101, 46, 99, 111, 109, 47, 114, 101, 100, 105, 114, 101, 99, 116>> }

RECURSIVE Join(_, _)
\* sep.join(parts)
Join(parts, sep) ==
    IF parts = <<>> THEN <<>>
    ELSE IF Len(parts) = 1 THEN parts[1]
    ELSE parts[1] \o sep \o Join(Tail(parts), sep)

UrlOf(base, fields, fragment) ==
    base \o (IF fields = <<>> THEN <<>> ELSE <<CharQuestion>> \o Join(fields, <<CharAmp>>))
         \o fragment

Urls ==
    { UrlOf(base, fields, fragment) :
        base \in UrlBases,
        fields \in UNION { [1..n -> UrlFields] : n \in 0..MaxParams },
        fragment \in UrlFragments }

\* direct_url = extract_direct_url(link['url']), as the link loops call it
ExtractDirectUrl ==
    /\ pc = "resolve"
    /\ direct_url' = extract_direct_url(youtube_redirect_url)
    /\ pc' = "resolved"
    /\ UNCHANGED <<youtube_redirect_url, direct_url_again, notLink>>

\* the normalizer applied to a link it has resolved
ExtractDirectUrlAgain ==
    /\ pc = "resolved"
    /\ direct_url_again' = extract_direct_url(direct_url)
    /\ pc' = "twice"
    /\ UNCHANGED <<youtube_redirect_url, direct_url, notLink>>

InitUrl ==
    /\ pc = "resolve"
    /\ youtube_redirect_url \in Urls
    /\ direct_url = None
    /\ direct_url_again = None
    /\ AggIdle
    /\ FilterIdle
    /\ RunIdle
    /\ BatchIdle
    /\ StatsIdle

NextUrl == ExtractDirectUrl \/ ExtractDirectUrlAgain

SpecUrl == InitUrl /\ [][NextUrl]_vars

----------------------------------------------------------------------------
(* One request GET /api/channel: analyze_channel of app.py and
   analyze_youtube_channel with the functions it calls *)

CharAt == 64

\* no call is built
NoCall == [service |-> "none"]

\* handle[1:] when handle.startswith('@')
StripAt(handle) ==
    IF handle # <<>> /\ handle[1] = CharAt THEN Tail(handle) ELSE handle

\* lines 48-70 of retrieve_youtube_data: the channels().list request
ChannelRequestOf(channel_id, username, handle) ==
    IF Truthy(channel_id)
    THEN [service |-> "channels.list", by |-> "channel_id", value |-> channel_id]
    ELSE IF Truthy(username)
    THEN [service |-> "channels.list", by |-> "username", value |-> username]
    ELSE IF Truthy(handle)
    THEN [service |-> "channels.list", by |-> "handle", value |-> StripAt(handle)]
    ELSE NoCall

AboutPageOfMutHandleFirst(channel_id, username, handle) ==
    IF Truthy(handle)
    THEN [service |-> "about_page", by |-> "handle", value |-> StripAt(handle)]
    ELSE IF Truthy(username)
    THEN [service |-> "about_page", by |-> "username", value |-> username]
    ELSE IF Truthy(channel_id)
    THEN [service |-> "about_page", by |-> "channel_id", value |-> channel_id]
    ELSE NoCall

\* lines 516-529 of get_channel_links_playwright: the about page it loads
AboutPageOf(channel_id, username, handle) ==
    IF Truthy(channel_id)
    THEN [service |-> "about_page", by |-> "channel_id", value |-> channel_id]
    ELSE IF Truthy(username)
    THEN [service |-> "about_page", by |-> "username", value |-> username]
    ELSE IF Truthy(handle)
    THEN [service |-> "about_page", by |-> "handle", value |-> StripAt(handle)]
    ELSE NoCall

PlaylistRequest ==
    [service |-> "playlistItems.list", by |-> "playlistId", value |-> <<>>]

VideosRequest == [service |-> "videos.list", by |-> "id", value |-> <<>>]

\* timedelta(days=days_ago) raises TypeError: days_ago is a string
DaysRaises(days) == days # None /\ days = <<>>

\* the parameters of a request are rejected by lines 39-73 of analyze_channel
Rejected(r) ==
    \/ ~ (Truthy(r.channel_id) \/ Truthy(r.username) \/ Truthy(r.handle))
    \/ Truthy(r.days) /\ ~IntParses(r.days)
    \/ Truthy(r.start_date) /\ Strptime(r.start_date) = ValueError
    \/ Truthy(r.end_date) /\ Strptime(r.end_date) = ValueError

\* analyze_channel, lines 32-84: the checks before the analysis is called
AnalyzeChannel ==
    /\ pc = "received"
    /\ entry = "http"
    /\ IF Rejected(request)
       THEN /\ status' = 400
            /\ pc' = "responded"
            /\ UNCHANGED <<days_ago, start_date, end_date>>
       ELSE IF request.extract_links /\ ~playwright_available
       THEN /\ status' = 500
            /\ pc' = "responded"
            /\ UNCHANGED <<days_ago, start_date, end_date>>
       ELSE /\ days_ago' = IF Truthy(request.days) THEN <<IntOf(request.days)>>
                           ELSE request.days
            /\ start_date' = request.start_date
            /\ end_date' = request.end_date
            /\ pc' = "retrieve"
            /\ UNCHANGED status
    /\ UNCHANGED <<request, playwright_available, calls, fetch, scrape, data, result,
                   notRun>>

\* the channel command of main(), lines 1460-1475: the arguments are passed
\* on as argparse read them
MainChannel ==
    /\ pc = "received"
    /\ entry = "cli"
    /\ days_ago' = IF request.days = None THEN None ELSE <<IntOf(request.days)>>
    /\ start_date' = request.start_date
    /\ end_date' = request.end_date
    /\ pc' = "retrieve"
    /\ UNCHANGED <<runVars, notRun>>

\* what the provider may answer to the three requests
ChannelAnswers == {"found", "not_found", "HttpError"}
PlaylistAnswers == {"ok", "HttpError"}
VideosAnswers == {"ok", "no_videos", "HttpError"}

\* retrieve_youtube_data: every exception of the fetch steps and of the date
\* filter is caught by lines 166-173 and None is returned
RetrieveYoutubeData ==
    /\ pc = "retrieve"
    /\ LET channel_request ==
               ChannelRequestOf(request.channel_id, request.username, request.handle)
       IN  IF channel_request = NoCall
           THEN /\ fetch' = "no_identifier"
                /\ data' = NoResult
                /\ UNCHANGED calls
           ELSE \E channel \in ChannelAnswers, playlist \in PlaylistAnswers,
                   video_stats \in VideosAnswers :
                  IF channel # "found"
                  THEN /\ calls' = Append(calls, channel_request)
                       /\ fetch' = channel
                       /\ data' = NoResult
                  ELSE IF playlist # "ok"
                  THEN /\ calls' = calls \o <<channel_request, PlaylistRequest>>
                       /\ fetch' = playlist
                       /\ data' = NoResult
                  ELSE IF DaysRaises(days_ago)
                  THEN /\ calls' = calls \o <<channel_request, PlaylistRequest>>
                       /\ fetch' = "TypeError"
                       /\ data' = NoResult
                  ELSE IF video_stats = "no_videos"
                  THEN /\ calls' = calls \o <<channel_request, PlaylistRequest>>
                       /\ fetch' = "ok"
                       /\ data' = [items |-> 1, video_stats |-> 0]
                  ELSE IF video_stats = "HttpError"
                  THEN /\ calls' = calls \o <<channel_request, PlaylistRequest,
                                             VideosRequest>>
                       /\ fetch' = "HttpError"
                       /\ data' = NoResult
                  ELSE /\ calls' = calls \o <<channel_request, PlaylistRequest,
                                             VideosRequest>>
                       /\ fetch' = "ok"
                       /\ data' = [items |-> 1, video_stats |-> 1]
    /\ pc' = "retrieved"
    /\ UNCHANGED <<request, playwright_available, scrape, result, status,
                   days_ago, start_date, end_date, notRun>>

NoDataFoundMutScrape ==
    /\ pc = "retrieved"
    /\ data = NoResult
    /\ result' = NoResult
    /\ status' = IF entry = "http" THEN 404 ELSE status
    /\ calls' = Append(calls, AboutPageOf(request.channel_id, request.username,
                                          request.handle))
    /\ pc' = "responded"
    /\ UNCHANGED <<request, playwright_available, fetch, scrape, data,
                   days_ago, start_date, end_date, notRun>>

\* lines 813-816 of analyze_youtube_channel and 108-111 of analyze_channel:
\* no data gives None, and None is answered with status 404; main() prints
\* nothing more
NoDataFound ==
    /\ pc = "retrieved"
    /\ data = NoResult
    /\ result' = NoResult
    /\ status' = IF entry = "http" THEN 404 ELSE status
    /\ pc' = "responded"
    /\ UNCHANGED <<request, playwright_available, calls, fetch, scrape, data,
                   days_ago, start_date, end_date, notRun>>

\* lines 818-824: the aggregators; int() of a statistic that is not a number
\* raises ValueError, which nothing catches before line 100 of app.py, and
\* nothing at all in main()
AggregateData ==
    /\ pc = "retrieved"
    /\ data # NoResult
    /\ \E numeric \in BOOLEAN :
          IF numeric
          THEN /\ pc' = "links"
               /\ UNCHANGED status
          ELSE IF entry = "http"
          THEN /\ status' = 500
               /\ pc' = "responded"
          ELSE /\ pc' = "raised"
               /\ UNCHANGED status
    /\ UNCHANGED <<request, playwright_available, calls, fetch, scrape, data,
                   result, days_ago, start_date, end_date, notRun>>

\* 'https://www.youtube.com/redirect?q=https%3A%2F%2Fexample.com'
WrappedLink == <<104, 116, 116, 112, 115, 58, 47, 47, 119, 119, 119, 46, 121, 111, 117, 116, 117, 98, 101, 46, 99, 111, 109, 47, 114, 101, 100, 105, 114, 101, 99, 116, 63, 113, 61, 104, 116, 116, 112, 115, 37, 51, 65, 37, 50, 70, 37, 50, 70, 101, 120, 97, 109, 112, 108, 101, 46, 99, 111, 109>>

\* 'https://example.org/shop'
PlainLink == <<104, 116, 116, 112, 115, 58, 47, 47, 101, 120, 97, 109, 112, 108, 101, 46, 111, 114, 103, 47, 115, 104, 111, 112>>

\* the links an about page may show
ScrapedLinks == {<<>>, <<WrappedLink>>, <<PlainLink, WrappedLink>>}

\* how get_channel_links may end: links or no links on the page, an
\* exception (the page does not load), or nothing returned
ScrapeOutcomes ==
    {[outcome |-> "links", links |-> links] : links \in ScrapedLinks \ {<<>>}}
    \cup {[outcome |-> "no_links", links |-> <<>>]}
    \cup {[outcome |-> "error", links |-> links] : links \in ScrapedLinks}
    \cup {[outcome |-> "nothing", links |-> <<>>]}

GetChannelLinksPlaywrightMutKeepLinks(scraped) ==
    IF scraped.outcome = "error" THEN [links |-> scraped.links, error |-> TRUE]
    ELSE IF scraped.outcome = "nothing" THEN NoResult
    ELSE [links |-> scraped.links, error |-> FALSE]

\* lines 531-547 of get_channel_links_playwright: an exception of
\* get_channel_links is answered with the dictionary of no links and 'error'
GetChannelLinksPlaywright(scraped) ==
    IF scraped.outcome = "error" THEN [links |-> <<>>, error |-> TRUE]
    ELSE IF scraped.outcome = "nothing" THEN NoResult
    ELSE [links |-> scraped.links, error |-> FALSE]

\* lines 836-852: metrics['external_links'] of a scrape
ExternalLinksOf(channel_links) ==
    IF channel_links # NoResult
    THEN IF channel_links.links # <<>> THEN channel_links.links ELSE <<>>
    ELSE <<>>

\* the loop of lines 113-120 of analyze_channel over external_links
DirectLinks(links) ==
    [k \in 1..Len(links) |->
        IF IsRedirectUrl(links[k]) THEN extract_direct_url(links[k]) ELSE links[k]]

\* lines 826-866 of analyze_youtube_channel: the about page is scraped when
\* asked for and Playwright is there, and the result is returned
ExtractLinks ==
    /\ pc = "links"
    /\ IF request.extract_links /\ playwright_available
       THEN /\ calls' = Append(calls, AboutPageOf(request.channel_id,
                                                 request.username, request.handle))
            /\ \E scraped \in ScrapeOutcomes :
                  /\ scrape' = scraped
                  /\ LET channel_links == GetChannelLinksPlaywright(scraped)
                     IN  result' = [raw_data |-> data,
                                    external_links |-> ExternalLinksOf(channel_links),
                                    channel_links |-> channel_links]
       ELSE /\ result' = [raw_data |-> data, external_links |-> <<>>,
                          channel_links |-> NoResult]
            /\ UNCHANGED <<calls, scrape>>
    /\ pc' = "analyzed"
    /\ UNCHANGED <<request, playwright_available, fetch, data, status,
                   days_ago, start_date, end_date, notRun>>

\* the links of channel_links are the dictionaries of external_links
WithLinks(r, links) ==
    [r EXCEPT !.external_links = links,
              !.channel_links =
                  IF r.channel_links # NoResult /\ r.channel_links.links # <<>>
                  THEN [r.channel_links EXCEPT !.links = links]
                  ELSE r.channel_links]

\* lines 113-123 of analyze_channel: link['url'] of every link that holds
\* 'youtube.com/redirect' is overwritten, and the result is answered
NormalizeLinks ==
    /\ pc = "analyzed"
    /\ entry = "http"
    /\ result' = WithLinks(result, DirectLinks(result.external_links))
    /\ status' = 200
    /\ pc' = "responded"
    /\ UNCHANGED <<request, playwright_available, calls, fetch, scrape, data,
                   days_ago, start_date, end_date, notRun>>

\* the channel command of main(): the result is printed and exported as it
\* was returned
MainExport ==
    /\ pc = "analyzed"
    /\ entry = "cli"
    /\ pc' = "responded"
    /\ UNCHANGED <<runVars, days_ago, start_date, end_date, notRun>>

\* 'UC1'
ChannelId1 == <<85, 67, 49>>

RequestParams ==
    [channel_id : {None, <<>>, ChannelId1},
     username : {None, \* 'u1'
                 <<117, 49>>},
     handle : {None, \* '@h1', 'h1', '@@h1'
               <<64, 104, 49>>, <<104, 49>>, <<64, 64, 104, 49>>},
     days : {None, <<>>, <<120>>} \cup {DecimalString(n) : n \in 0..MaxDays},
     start_date : {None, <<>>, DateStr(2024, 1, 1), DateStr(2024, 2, 30)},
     end_date : {None, DateStr(2024, 1, 31), DateStr(2024, 2, 30)},
     extract_links : BOOLEAN]

\* the arguments the channel command of main() accepts: one identifier,
\* '--days' an int
CliParams ==
    {r \in RequestParams :
        /\ Cardinality({f \in {"channel_id", "username", "handle"} : r[f] # None}) = 1
        /\ r.days = None \/ IntParses(r.days)}

InitRun ==
    /\ pc = "received"
    /\ entry \in {"http", "cli"}
    /\ request \in IF entry = "http" THEN RequestParams ELSE CliParams
    /\ playwright_available \in BOOLEAN
    /\ calls = <<>>
    /\ fetch = "none"
    /\ scrape = NoScrape
    /\ data = NoResult
    /\ result = NoResult
    /\ status = 0
    /\ days_ago = None
    /\ start_date = None
    /\ end_date = None
    /\ now = None
    /\ playlist_items = <<>>
    /\ videos_response = <<>>
    /\ cutoff_date_str = None
    /\ start_date_str = None
    /\ end_date_str = None
    /\ AggIdle
    /\ LinkIdle
    /\ BatchIdle
    /\ StatsIdle

NextRun ==
    \/ AnalyzeChannel
    \/ MainChannel
    \/ RetrieveYoutubeData
    \/ NoDataFound
    \/ AggregateData
    \/ ExtractLinks
    \/ NormalizeLinks
    \/ MainExport

SpecRun == InitRun /\ [][NextRun]_vars

----------------------------------------------------------------------------
(* analyze_search_results: the loop over the channels of a search *)

MaxChannels == 2

BatchIds ==
    { ChannelId1,
      \* 'UC2'
      <<85, 67, 50>>,
      \* 'UC3'
      <<85, 67, 51>> }

ChannelLists == UNION {[1..n -> BatchIds] : n \in 0..MaxChannels}

\* 'News', 'Tech'
ChannelTitles == {<<78, 101, 119, 115>>, <<84, 101, 99, 104>>}

\* snippet.get('title', 'Unknown')
TitleOf(title) == Get(title, <<85, 110, 107, 110, 111, 119, 110>>)

\* analyze_youtube_channel(channel_id=channel_id, ...), lines 811-866, by the
\* way the fetch steps ended, by whether the statistics are numbers and by
\* the title of the channel: None without data, the ValueError of int()
\* raised by extract_account_metrics, the result otherwise
AnalysisOf(channel_id, answer, numeric, title) ==
    IF answer # "ok" THEN NoResult
    ELSE IF ~numeric THEN ValueError
    ELSE [raw_data |-> channel_id, title |-> TitleOf(title), external_links |-> <<>>]

\* the calls of one analysis of the batch: the channel is fetched by its id,
\* and its about page is scraped once the data is aggregated
BatchCalls(channel_id, answer, numeric, extract_links) ==
    <<[service |-> "channels.list", by |-> "channel_id", value |-> channel_id]>>
    \o (IF answer = "ok" /\ numeric /\ extract_links
        THEN <<[service |-> "about_page", by |-> "channel_id", value |-> channel_id]>>
        ELSE <<>>)

StoreResultMutAlways(dict, channel_id, r) ==
    [k \in DOMAIN dict \cup {channel_id} |-> IF k = channel_id THEN r ELSE dict[k]]

\* 'if result: results[channel_id] = result'
StoreResult(dict, channel_id, r) ==
    IF r # NoResult
    THEN [k \in DOMAIN dict \cup {channel_id} |-> IF k = channel_id THEN r ELSE dict[k]]
    ELSE dict

KeysAfterStoreMutFront(keys, channel_id, r) ==
    IF r # NoResult /\ \A k \in 1..Len(keys) : keys[k] # channel_id
    THEN <<channel_id>> \o keys
    ELSE keys

\* the keys of the dictionary after that assignment: a new key comes last,
\* a key that is there keeps its place
KeysAfterStore(keys, channel_id, r) ==
    IF r # NoResult /\ \A k \in 1..Len(keys) : keys[k] # channel_id
    THEN Append(keys, channel_id)
    ELSE keys

\* one round of the loop of lines 1085-1104; an exception of the analysis
\* leaves the loop and the function
AnalyzeNextChannel ==
    /\ pc = "batch"
    /\ Len(analyzed) < Len(channels)
    /\ LET channel_id == channels[Len(analyzed) + 1]
       IN  \E answer \in {"ok", "not_found", "HttpError"}, numeric \in BOOLEAN,
              title \in {Absent} \cup ChannelTitles, extract_links \in BOOLEAN :
              LET r == AnalysisOf(channel_id, answer, numeric, title)
              IN  /\ calls' = calls \o BatchCalls(channel_id, answer, numeric,
                                                  extract_links)
                  /\ IF r = ValueError
                     THEN /\ analyzed' = Append(analyzed, [channel_id |-> channel_id,
                                                           outcome |-> "ValueError"])
                          /\ pc' = "raised"
                          /\ UNCHANGED <<results, result_keys>>
                     ELSE /\ analyzed' =
                                 Append(analyzed,
                                        [channel_id |-> channel_id,
                                         outcome |-> IF r = NoResult THEN answer
                                                     ELSE "result"])
                          /\ results' = StoreResult(results, channel_id, r)
                          /\ result_keys' = KeysAfterStore(result_keys, channel_id, r)
                          /\ pc' = "batch"
    /\ UNCHANGED <<channels, export_data, statsVars, aggVars, filterVars, linkVars,
                   request, playwright_available, fetch, scrape, data, result,
                   status>>

\* 'return results', line 1106
ReturnResults ==
    /\ pc = "batch"
    /\ Len(analyzed) = Len(channels)
    /\ pc' = "returned"
    /\ UNCHANGED <<batchVars, notBatch>>

RECURSIVE ExportChannels(_, _, _)
\* the loop of lines 1129-1139 of export_to_json, and of lines 300-318 of
\* /api/analyze: export_data['channels'][title] = {...} for every result, in
\* the order of the dictionary
ExportChannels(keys, dict, out) ==
    IF keys = <<>> THEN out
    ELSE LET channel_id == Head(keys)
             title == dict[channel_id].title
         IN  ExportChannels(Tail(keys), dict,
                 [t \in DOMAIN out \cup {title} |->
                     IF t = title
                     THEN [channel_id |-> channel_id,
                           external_links |-> dict[channel_id].external_links]
                     ELSE out[t]])

\* export_to_json(results): nothing is written for an empty dictionary
ExportToJson ==
    /\ pc = "returned"
    /\ result_keys # <<>>
    /\ export_data' = ExportChannels(result_keys, results, <<>>)
    /\ pc' = "exported"
    /\ UNCHANGED <<channels, analyzed, results, result_keys, notBatch>>

InitBatch ==
    /\ pc = "batch"
    /\ channels \in ChannelLists
    /\ analyzed = <<>>
    /\ results = <<>>
    /\ result_keys = <<>>
    /\ export_data = <<>>
    /\ AggIdle
    /\ FilterIdle
    /\ LinkIdle
    /\ RunIdle
    /\ StatsIdle

NextBatch == AnalyzeNextChannel \/ ReturnResults \/ ExportToJson

SpecBatch == InitBatch /\ [][NextBatch]_vars

----------------------------------------------------------------------------
(* Properties of the aggregators, stated over the input list *)

Finished == pc \in {"done", "raised"}

RatEq(a, b) == a.den # 0 /\ b.den # 0 /\ a.num * b.den = b.num * a.den

RatLE(a, b) == a.den > 0 /\ b.den > 0 /\ a.num * b.den <= b.num * a.den

IsZero(q) == q.den # 0 /\ q.num = 0

Whole(n) == [num |-> n, den |-> 1]

\* the count of video k under key, an absent count read as 0
CountAt(vs, k, key) == IF vs[k][key] = Absent THEN 0 ELSE IntOf(vs[k][key])

RECURSIVE TotalUpTo(_, _, _)
TotalUpTo(vs, n, key) ==
    IF n = 0 THEN 0 ELSE TotalUpTo(vs, n - 1, key) + CountAt(vs, n, key)

Total(vs, key) == TotalUpTo(vs, Len(vs), key)

\* C1: for an empty video collection both summaries are all-zero and no
\* error occurs: calculate_video_averages returns count 0 and 0 for every
\* average, ratio and extremum, and 'video_metrics' reports count 0 and 0
\* for avg/max/min views, avg likes, avg comments and engagement rate.
C1_EmptyAllZero ==
    (Finished /\ videos = <<>>) =>
        /\ pc = "done"
        /\ error = "none"
        /\ video_averages # NoKey
        /\ video_averages.count = 0
        /\ IsZero(video_averages.avg_views)
        /\ IsZero(video_averages.avg_likes)
        /\ IsZero(video_averages.avg_comments)
        /\ IsZero(video_averages.engagement_rate)
        /\ IsZero(video_averages.like_to_view_ratio)
        /\ IsZero(video_averages.comment_to_view_ratio)
        /\ video_averages.max_views = 0
        /\ video_averages.min_views = 0
        /\ video_metrics # NoKey
        /\ video_metrics.analyzed_videos_count = 0
        /\ IsZero(video_metrics.avg_views)
        /\ video_metrics.max_views = 0
        /\ video_metrics.min_views = 0
        /\ IsZero(video_metrics.avg_likes)
        /\ IsZero(video_metrics.avg_comments)
        /\ IsZero(video_metrics.engagement_rate)

\* C2: for a non-empty video collection whose view counts sum to 0,
\* engagement_rate, like_to_view_ratio and comment_to_view_ratio are exactly
\* 0 in both summaries and no division raises.
C2_ZeroViewsZeroRates ==
    (Finished /\ videos # <<>> /\ Total(videos, "viewCount") = 0) =>
        /\ pc = "done"
        /\ error = "none"
        /\ video_metrics # NoKey
        /\ video_metrics.engagement_rate = Zero
        /\ video_averages # NoKey
        /\ video_averages.engagement_rate = Zero
        /\ video_averages.like_to_view_ratio = Zero
        /\ video_averages.comment_to_view_ratio = Zero

C2_Witness ==
    /\ pc = "done"
    /\ videos # <<>>
    /\ Total(videos, "viewCount") = 0
    /\ Total(videos, "likeCount") > 0
    /\ Total(videos, "commentCount") > 0

\* C3: for a non-empty video collection max_views >= avg_views >= min_views
\* in both summaries, and both extrema equal the single view count when
\* exactly one video is present.
C3_MaxAvgMin ==
    (Finished /\ videos # <<>>) =>
        /\ pc = "done"
        /\ video_metrics # NoKey
        /\ RatLE(video_metrics.avg_views, Whole(video_metrics.max_views))
        /\ RatLE(Whole(video_metrics.min_views), video_metrics.avg_views)
        /\ video_averages # NoKey
        /\ RatLE(video_averages.avg_views, Whole(video_averages.max_views))
        /\ RatLE(Whole(video_averages.min_views), video_averages.avg_views)
        /\ Len(videos) = 1 =>
              /\ video_metrics.max_views = CountAt(videos, 1, "viewCount")
              /\ video_metrics.min_views = CountAt(videos, 1, "viewCount")
              /\ video_averages.max_views = CountAt(videos, 1, "viewCount")
              /\ video_averages.min_views = CountAt(videos, 1, "viewCount")

C3_Witness ==
    /\ pc = "done"
    /\ Len(videos) = 2
    /\ video_metrics # NoKey
    /\ video_metrics.min_views < video_metrics.max_views
    /\ ~ RatLE(Whole(video_metrics.max_views), video_metrics.avg_views)
    /\ ~ RatLE(video_metrics.avg_views, Whole(video_metrics.min_views))

\* the scenario of three videos: views [100,50,10], likes [10,5,1],
\* comments [2,1,0], with the engagement rate r expected of it
ScenarioHolds(r) ==
    videos = ScenarioVideos =>
        /\ video_metrics # NoKey
        /\ video_averages # NoKey
        /\ RatEq(video_metrics.avg_views, Div(160, 3))
        /\ video_metrics.max_views = 100
        /\ video_metrics.min_views = 10
        /\ RatEq(video_metrics.engagement_rate, r)
        /\ RatEq(video_averages.avg_views, Div(160, 3))
        /\ video_averages.max_views = 100
        /\ video_averages.min_views = 10
        /\ RatEq(video_averages.engagement_rate, r)

\* the totals are the sums, the averages total / n, the engagement rate
\* (total_likes + total_comments) / total_views
TotalsHold ==
    LET n == Len(videos)
        tv == Total(videos, "viewCount")
        tl == Total(videos, "likeCount")
        tc == Total(videos, "commentCount")
    IN  /\ pc = "done"
        /\ video_metrics # NoKey
        /\ video_averages # NoKey
        /\ video_metrics.analyzed_videos_count = n
        /\ video_averages.count = n
        /\ video_metrics.total_views = tv
        /\ RatEq(video_metrics.avg_views, Div(tv, n))
        /\ RatEq(video_metrics.avg_likes, Div(tl, n))
        /\ RatEq(video_metrics.avg_comments, Div(tc, n))
        /\ RatEq(video_averages.avg_views, Div(tv, n))
        /\ RatEq(video_averages.avg_likes, Div(tl, n))
        /\ RatEq(video_averages.avg_comments, Div(tc, n))
        /\ tv > 0 =>
              /\ RatEq(video_metrics.engagement_rate, Div(tl + tc, tv))
              /\ RatEq(video_averages.engagement_rate, Div(tl + tc, tv))

\* C4 as stated: for a non-empty video collection the totals are the sums
\* of the per-video counts with an absent count read as 0, each average is
\* total / number of videos, engagement_rate is (total_likes +
\* total_comments) / total_views, and views [100,50,10], likes [10,5,1],
\* comments [2,1,0] give avg_views 160/3, max_views 100, min_views 10 and
\* engagement_rate 16/160.
C4_ScenarioRateSixteen ==
    (Finished /\ videos # <<>>) => (TotalsHold /\ ScenarioHolds(Div(16, 160)))

\* C4 amended: as above, but the scenario's engagement_rate is
\* (16 + 3) / 160 = 19/160, the comments being counted with the likes.
C4_TotalsAndAverages ==
    (Finished /\ videos # <<>>) => (TotalsHold /\ ScenarioHolds(Div(19, 160)))

C4_Witness ==
    /\ pc = "done"
    /\ videos = ScenarioVideos
    /\ video_metrics # NoKey
    /\ video_averages # NoKey

\* C5: for every input video collection, the empty one included, the count,
\* avg_views, avg_likes, avg_comments, max_views, min_views and
\* engagement_rate of 'video_metrics' equal the same-named statistics of
\* 'video_averages'.
C5_SummariesAgree ==
    Finished =>
        /\ pc = "done"
        /\ video_metrics # NoKey
        /\ video_averages # NoKey
        /\ video_metrics.analyzed_videos_count = video_averages.count
        /\ RatEq(video_metrics.avg_views, video_averages.avg_views)
        /\ RatEq(video_metrics.avg_likes, video_averages.avg_likes)
        /\ RatEq(video_metrics.avg_comments, video_averages.avg_comments)
        /\ video_metrics.max_views = video_averages.max_views
        /\ video_metrics.min_views = video_averages.min_views
        /\ RatEq(video_metrics.engagement_rate, video_averages.engagement_rate)

----------------------------------------------------------------------------
(* Properties of the date filter, stated over instants *)

\* the instant a playlist item was published at
InstantOf(item) ==
    CHOOSE dt \in PublishedInstants : PublishedAt(dt) = item.publishedAt

SecondOfDay(dt) == dt.hour * 3600 + dt.minute * 60 + dt.second

\* a is an earlier instant than b
Earlier(a, b) ==
    LET da == ToOrdinal(a.year, a.month, a.day)
        db == ToOrdinal(b.year, b.month, b.day)
    IN  \/ da < db
        \/ da = db /\ SecondOfDay(a) < SecondOfDay(b)
        \/ da = db /\ SecondOfDay(a) = SecondOfDay(b)
              /\ a.microsecond < b.microsecond

\* the item is in the list the filter left
Kept(item) == \E k \in 1..Len(videos_response) : videos_response[k] = item

Parses(str) == str # None /\ Strptime(str) # ValueError

Unparsable(str) == str # None /\ Strptime(str) = ValueError

\* 00:00:00 of the day a date string names
DayStart(str) == Strptime(str)

\* 23:59:59 of the day a date string names
DayEnd(str) ==
    [Strptime(str) EXCEPT !.hour = 23, !.minute = 59, !.second = 59]

\* C6: the filter applied with no constraint (days_ago, start_date and
\* end_date all absent) returns the fetched video list unchanged: same
\* items, same order.
C6_NoConstraintIdentity ==
    (pc = "filtered" /\ days_ago = None /\ start_date = None /\ end_date = None)
        => videos_response = playlist_items

C6_Witness ==
    /\ pc = "filtered"
    /\ days_ago = None /\ start_date = None /\ end_date = None
    /\ Len(playlist_items) = 2
    /\ Earlier(InstantOf(playlist_items[1]), InstantOf(playlist_items[2]))
    /\ videos_response = playlist_items

\* C7: the filter with only a relative window of N days excludes every item
\* whose publish instant is strictly earlier than now - N days and includes
\* every other item.
C7_RelativeWindow ==
    (pc = "filtered" /\ days_ago # None /\ start_date = None /\ end_date = None)
        => \A k \in 1..Len(playlist_items) :
              Kept(playlist_items[k]) <=>
                  ~ Earlier(InstantOf(playlist_items[k]),
                            MinusDays(now, days_ago[1]))

\* C8: the filter with a start date S and an end date E includes an item
\* exactly when its publish instant t satisfies S 00:00:00 <= t <= E
\* 23:59:59; start 2024-01-01 and end 2024-01-31 admit an item published
\* 2024-01-15T00:00:00Z and reject one published 2024-02-01T00:00:00Z.
C8_AbsoluteWindow ==
    (pc = "filtered" /\ days_ago = None /\ Parses(start_date) /\ Parses(end_date))
        => \A k \in 1..Len(playlist_items) :
              LET item == playlist_items[k]
                  t == InstantOf(item)
              IN  /\ Kept(item) <=>
                         /\ ~ Earlier(t, DayStart(start_date))
                         /\ ~ Earlier(DayEnd(end_date), t)
                  /\ (/\ start_date = DateStr(2024, 1, 1)
                      /\ end_date = DateStr(2024, 1, 31)
                      /\ t = DateTime(2024, 1, 15, 0, 0, 0, 0)) => Kept(item)
                  /\ (/\ start_date = DateStr(2024, 1, 1)
                      /\ end_date = DateStr(2024, 1, 31)
                      /\ t = DateTime(2024, 2, 1, 0, 0, 0, 0)) => ~ Kept(item)

C8_Witness ==
    /\ pc = "filtered"
    /\ days_ago = None
    /\ start_date = DateStr(2024, 1, 1)
    /\ end_date = DateStr(2024, 1, 31)
    /\ Len(playlist_items) = 2
    /\ InstantOf(playlist_items[1]) = DateTime(2024, 2, 1, 0, 0, 0, 0)
    /\ InstantOf(playlist_items[2]) = DateTime(2024, 1, 15, 0, 0, 0, 0)
    /\ videos_response = <<playlist_items[2]>>

\* C9: when several constraints are given together an item is kept only if
\* it satisfies every one of them: an item that is earlier than now - N
\* days, earlier than the start or later than the end of day is never in
\* the filtered list.
C9_AllConstraints ==
    pc = "filtered" =>
        \A k \in 1..Len(videos_response) :
            LET t == InstantOf(videos_response[k])
            IN  /\ days_ago # None => ~ Earlier(t, MinusDays(now, days_ago[1]))
                /\ Parses(start_date) => ~ Earlier(t, DayStart(start_date))
                /\ Parses(end_date) => ~ Earlier(DayEnd(end_date), t)

\* C10: an unparsable start_date or end_date is surfaced as an input error
\* before any item is filtered: the run never goes on to filter the videos
\* as if that constraint had not been given.
C10_UnparsableDateFailsFast ==
    (Unparsable(start_date) \/ Unparsable(end_date))
        => pc \notin {"filter", "filtered"}

----------------------------------------------------------------------------
(* Properties of the link normalizer, stated over the address and the raw
   query fields of the link *)

Resolved == pc \in {"resolved", "twice"}

\* the address of a link: what stands before the query and the fragment
HostPath(url) ==
    LET nofrag == SubSeq(url, 1, IndexOf(url, CharHash) - 1)
    IN  SubSeq(nofrag, 1, IndexOf(nofrag, CharQuestion) - 1)

\* the link's host and path are those of the redirect wrapper
IsWrapper(url) == HostPath(url) = WrapperBase

\* the raw, still encoded values of the fields q=... of a link's query
RawQValues(url) ==
    LET fields == Split(UrlQuery(url), CharAmp)
        IsQ(field) == Len(field) >= 2 /\ SubSeq(field, 1, 2) = <<113, CharEquals>>
        qs == SelectSeq(fields, IsQ)
    IN  [k \in 1..Len(qs) |-> SubSeq(qs[k], 3, Len(qs[k]))]

\* the first q of the link that is not empty, <<>> when there is none
RawQ(url) ==
    LET IsSet(value) == value # <<>>
        set == SelectSeq(RawQValues(url), IsSet)
    IN  IF set = <<>> THEN <<>> ELSE set[1]

\* C11: applying the normalizer to a link it has resolved gives the same
\* link again, whatever the first link was, a wrapper around a wrapper
\* included.
C11_Idempotent ==
    pc = "twice" => direct_url_again = direct_url

\* C12: a link whose host and path are not the redirect wrapper's, and a
\* wrapper link whose q is missing or empty, is returned unchanged.
C12_NonWrapperUnchanged ==
    (Resolved /\ (~IsWrapper(youtube_redirect_url) \/ RawQ(youtube_redirect_url) = <<>>))
        => direct_url = youtube_redirect_url

\* C13: a wrapper link with a q that is not empty resolves to that value,
\* percent-decoded.
C13_WrapperDecodedOnce ==
    (Resolved /\ IsWrapper(youtube_redirect_url) /\ RawQ(youtube_redirect_url) # <<>>)
        => direct_url = Unquote(RawQ(youtube_redirect_url))

----------------------------------------------------------------------------
(* Properties of the duration parser, stated over the components a duration
   is written from *)

\* the numbers a duration of the lists can carry
ComponentValues == 0..(MaxComponent + 13)

\* the triples of components whose duration string is d
Readings(d) ==
    { t \in Components(ComponentValues) \X Components(ComponentValues)
              \X Components(ComponentValues) :
        DurationString(t[1], t[2], t[3]) = d }

\* d is 'PT' followed by hours, minutes and seconds, each optional
WellFormed(d) == Readings(d) # {}

ValueOf(component) == IF component = Absent THEN 0 ELSE IntOf(component)

\* 3600 * h + 60 * m + s of a well-formed duration, 0 of any other string
SecondsOf(d) ==
    IF WellFormed(d)
    THEN LET t == CHOOSE t \in Readings(d) : TRUE
         IN  3600 * ValueOf(t[1]) + 60 * ValueOf(t[2]) + ValueOf(t[3])
    ELSE 0

RECURSIVE SecondsUpTo(_)
SecondsUpTo(n) ==
    IF n = 0 THEN 0 ELSE SecondsUpTo(n - 1) + SecondsOf(DurationOf(videos[n]))

AllWellFormed ==
    \A k \in 1..Len(videos) :
        DurationOf(videos[k]) = <<>> \/ WellFormed(DurationOf(videos[k]))

\* C14: a duration PT[nH][nM][nS] counts 3600 * h + 60 * m + s seconds,
\* 'PT' and the empty string count 0; the average duration of well-formed
\* durations is their sum over the number of videos.
C14_WellFormedDuration ==
    (pc = "done" /\ AllWellFormed) =>
        RatEq(video_averages.avg_duration_seconds,
              Div(SecondsUpTo(Len(videos)), Len(videos)))

\* 'PT5M13S' gives 313 and 'PT1H' gives 3600
C14_Witness ==
    /\ pc = "done"
    /\ Len(videos) = 2
    /\ DurationOf(videos[1]) = ScenarioDuration
    /\ DurationOf(videos[2]) = DurationString(DecimalString(1), Absent, Absent)
    /\ video_averages.avg_duration_seconds = Div(313 + 3600, 2)

\* C15: a duration that is not well-formed adds 0 seconds, the durations of
\* the other videos are summed in full and the function returns.
C15_MalformedAddsZero ==
    (Finished /\ videos # <<>>) =>
        /\ pc = "done"
        /\ RatEq(video_averages.avg_duration_seconds,
                 Div(SecondsUpTo(Len(videos)), Len(videos)))
        /\ RatEq(video_averages.avg_views, Div(2 * Len(videos), Len(videos)))
        /\ RatEq(video_averages.engagement_rate, Div(2, 2))
        /\ video_averages.max_views = 2
        /\ video_averages.min_views = 2

----------------------------------------------------------------------------
(* Properties of one request, stated over the request's parameters, the
   calls issued and the status answered *)

\* the identifier the precedence channel id, username, handle picks from
\* those the caller supplied
ChosenBy(r) ==
    IF Truthy(r.channel_id) THEN "channel_id"
    ELSE IF Truthy(r.username) THEN "username" ELSE "handle"

\* its value, a handle without its first '@'
ChosenValue(r) ==
    IF Truthy(r.channel_id) THEN r.channel_id
    ELSE IF Truthy(r.username) THEN r.username
    ELSE IF r.handle[1] = CharAt THEN SubSeq(r.handle, 2, Len(r.handle))
    ELSE r.handle

Supplied(r) ==
    Cardinality({f \in {"channel_id", "username", "handle"} : Truthy(r[f])})

CallsTo(service) == {k \in 1..Len(calls) : calls[k].service = service}

\* C18: the channel fetch and the about-page scrape of a request use the
\* same identifier, the first supplied of channel id, username, handle, and
\* a handle goes without one leading '@'.
C18_SameIdentifierByPrecedence ==
    \A k \in CallsTo("channels.list") \cup CallsTo("about_page") :
        /\ calls[k].by = ChosenBy(request)
        /\ calls[k].value = ChosenValue(request)

\* a username and a handle '@@h1' are supplied without a channel id: the
\* channel is fetched and the about page scraped by the username
C18_Witness ==
    /\ pc = "responded"
    /\ status = 200
    /\ Supplied(request) = 2
    /\ ~Truthy(request.channel_id)
    /\ Len(request.handle) = 4
    /\ \E k \in CallsTo("channels.list") : calls[k].by = "username"
    /\ \E k \in CallsTo("about_page") : calls[k].by = "username"

\* the caller made an input error: no identifier, a 'days' that is no
\* integer, or a date that is no date
InputError(r) ==
    \/ Supplied(r) = 0
    \/ r.days # None /\ ~IntParses(r.days)
    \/ r.start_date # None /\ Strptime(r.start_date) = ValueError
    \/ r.end_date # None /\ Strptime(r.end_date) = ValueError

\* C19: a request with an input error is answered as a caller error, and no
\* call to the provider or the scraper is issued for it.
C19_InputErrorBeforeAnyCall ==
    InputError(request) =>
        /\ calls = <<>>
        /\ pc = "responded" => status = 400

\* C20: the answer to a channel that does not exist is not the answer to a
\* fetch step that failed: what is answered as not found was not found.
C20_NotFoundIsNotFailure ==
    (pc = "responded" /\ status = 404) => fetch = "not_found"

----------------------------------------------------------------------------
(* Properties of the batch, stated over the channels given and the way the
   analysis of each one ended *)

AnalyzedWith(outcome) == {k \in 1..Len(analyzed) : analyzed[k].outcome = outcome}

\* C16: the keys of the mapping returned are the ids of the channels whose
\* analysis gave a result; a channel without one is left out and every
\* channel of the list has been analyzed.
C16_KeysAreChannelsWithResult ==
    pc = "returned" =>
        /\ Len(analyzed) = Len(channels)
        /\ \A k \in 1..Len(channels) : analyzed[k].channel_id = channels[k]
        /\ DOMAIN results = {channels[k] : k \in AnalyzedWith("result")}
        /\ \A id \in DOMAIN results : results[id] # NoResult

\* two ids, the first not found: one entry, keyed by the second
C16_Witness ==
    /\ pc = "returned"
    /\ Len(channels) = 2
    /\ channels[1] # channels[2]
    /\ analyzed[1].outcome = "not_found"
    /\ analyzed[2].outcome = "result"
    /\ DOMAIN results = {channels[2]}

\* C17: whatever fails for one channel, a fetch step or the aggregation of
\* its data, the loop goes through every channel and the mapping is
\* returned.
C17_FailureStaysInChannel ==
    pc \in {"returned", "raised"} =>
        /\ pc = "returned"
        /\ Len(analyzed) = Len(channels)

----------------------------------------------------------------------------
(* Properties of the links of one request and of the order of its steps *)

Returned == pc \in {"analyzed", "responded"} /\ result # NoResult

\* C21: a scrape that fails, by an exception or by returning nothing, does
\* not abort the analysis: the result is returned with the channel's data
\* and an empty list of external links.
C21_ScrapeFailureKeepsResult ==
    (pc \in {"analyzed", "responded"} /\ scrape.outcome \in {"error", "nothing"}) =>
        /\ result # NoResult
        /\ data # NoResult
        /\ result.raw_data = data
        /\ result.external_links = <<>>
        /\ status \in {0, 200}

\* the page showed links and then failed: the request is answered 200 with
\* no link
C21_Witness ==
    /\ pc = "responded"
    /\ entry = "http"
    /\ scrape.outcome = "error"
    /\ scrape.links # <<>>
    /\ result.external_links = <<>>
    /\ result.raw_data = data
    /\ status = 200

\* C22: links asked for without Playwright end as a scrape of zero links
\* does: the channel is analyzed, and a result has an empty list of links.
C22_UnavailableAsZeroLinks ==
    (/\ pc = "responded"
     /\ request.extract_links
     /\ ~playwright_available
     /\ ~Rejected(request)) =>
        /\ fetch # "none"
        /\ result # NoResult => result.external_links = <<>>

\* C23: every link of a returned result has been through extract_direct_url.
C23_EveryLinkNormalized ==
    (Returned /\ scrape.outcome = "links") =>
        /\ Len(result.external_links) = Len(scrape.links)
        /\ \A k \in 1..Len(scrape.links) :
              result.external_links[k] = extract_direct_url(scrape.links[k])

StepOf(service) ==
    CASE service = "channels.list" -> 1
      [] service = "playlistItems.list" -> 2
      [] service = "videos.list" -> 3
      [] service = "about_page" -> 4

CallsInOrder ==
    \A i, j \in 1..Len(calls) :
        i < j => StepOf(calls[i].service) < StepOf(calls[j].service)

\* C24: the steps of one analysis come in the fixed order, none twice, and
\* the analysis returns its result only with the links normalized.
C24_StepsInOrder ==
    /\ []CallsInOrder
    /\ [][(pc' = "analyzed" /\ pc # "analyzed") =>
              \A k \in 1..Len(result'.external_links) :
                  result'.external_links[k] =
                      extract_direct_url(result'.external_links[k])]_vars

Failed == fetch \in {"not_found", "HttpError"}

\* C25: after a channel is not found or a fetch step failed, no call is
\* issued any more, to the provider or to the scraper, and the analysis
\* returns None without raising.
C25_FailureIsTerminal ==
    /\ [](Failed => /\ CallsTo("about_page") = {}
                    /\ pc # "raised"
                    /\ pc = "responded" => result = NoResult)
    /\ [][Failed => calls' = calls]_vars

\* the playlist request failed for a request that asked for links
C25_Witness ==
    /\ pc = "responded"
    /\ fetch = "HttpError"
    /\ Len(calls) = 2
    /\ request.extract_links
    /\ playwright_available
    /\ result = NoResult

\* C29: a result that analyze_youtube_channel has returned is not changed
\* by the code that reads it.
C29_ReturnedResultUnchanged ==
    [][pc = "analyzed" => result' = result]_vars

-----------------------------------------------------------------------------
\* Properties of the order of a batch and of its export

\* the first round of the batch in which the channel got a result
FirstResultRound(channel_id) ==
    CHOOSE k \in 1..Len(analyzed) :
        /\ analyzed[k].channel_id = channel_id
        /\ analyzed[k].outcome = "result"
        /\ \A j \in 1..(k - 1) :
              ~(analyzed[j].channel_id = channel_id /\ analyzed[j].outcome = "result")

\* the calls that fetch a channel, in the order they were issued
ChannelFetches == SelectSeq(calls, LAMBDA c : c.service = "channels.list")

\* C26: analyze_search_results takes the channels one at a time in the order
\* of its input: the k-th channel fetched is the k-th channel of the input,
\* every call to the scraper comes after the fetch of its own channel and
\* before the fetch of the next one, and the keys of the result mapping
\* are the channels that got a result, in the order of their first result.
C26_OneAtATimeInInputOrder ==
    pc \in {"batch", "returned", "raised", "exported"} =>
        /\ Len(analyzed) <= Len(channels)
        /\ \A k \in 1..Len(analyzed) : analyzed[k].channel_id = channels[k]
        /\ Len(ChannelFetches) = Len(analyzed)
        /\ \A k \in 1..Len(ChannelFetches) : ChannelFetches[k].value = channels[k]
        /\ \A i \in 1..Len(calls) :
              calls[i].service = "about_page" =>
                  /\ i > 1
                  /\ calls[i - 1].service = "channels.list"
                  /\ calls[i - 1].value = calls[i].value
        /\ {result_keys[k] : k \in 1..Len(result_keys)} = DOMAIN results
        /\ \A i, j \in 1..Len(result_keys) :
              i < j => FirstResultRound(result_keys[i]) < FirstResultRound(result_keys[j])

\* two different channels were analysed with their links and both are in
\* the mapping that was returned
C26_Witness ==
    /\ pc = "returned"
    /\ Len(channels) = 2
    /\ channels[1] # channels[2]
    /\ result_keys = channels
    /\ Len(calls) = 4

\* C30: the 'channels' of an export has exactly one entry for every channel
\* id of the results; no entry is lost or overwritten by another channel,
\* also when two channels have the same title.
C30_OneEntryPerChannel ==
    pc = "exported" =>
        /\ Cardinality(DOMAIN export_data) = Cardinality(DOMAIN results)
        /\ \A channel_id \in DOMAIN results :
              \E t \in DOMAIN export_data : export_data[t].channel_id = channel_id

-----------------------------------------------------------------------------
\* Properties of the recent videos

\* p takes the places of the recent videos to the places of the input
PlacesOfInput(p) ==
    /\ \A k \in 1..Len(videos) : recent_videos[k] = RecentVideoOf(videos[p[k]])
    /\ \A k, l \in 1..Len(videos) : k # l => p[k] # p[l]

\* C28: the recent videos are the input videos in another order: newest
\* publish instant first, and videos of the same instant in the order the
\* provider returned them.
C28_RecentVideosNewestFirst ==
    (pc \in {"averages", "done"} /\ videos # <<>>
        /\ \A k \in 1..Len(videos) : "publishedAt" \in DOMAIN videos[k]) =>
        /\ Len(recent_videos) = Len(videos)
        /\ \E p \in [1..Len(videos) -> 1..Len(videos)] :
              /\ PlacesOfInput(p)
              /\ \A k, l \in 1..Len(videos) :
                    k < l =>
                        /\ ~Earlier(InstantOf(videos[p[k]]), InstantOf(videos[p[l]]))
                        /\ InstantOf(videos[p[k]]) = InstantOf(videos[p[l]]) => p[k] < p[l]

\* three videos, the oldest returned first and the two others of the same
\* instant, were put in order
C28_Witness ==
    /\ pc = "done"
    /\ Len(videos) = 3
    /\ Earlier(InstantOf(videos[1]), InstantOf(videos[2]))
    /\ InstantOf(videos[2]) = InstantOf(videos[3])
    /\ recent_videos[1].video_id = VideoId(2)
    /\ recent_videos[2].video_id = VideoId(3)
    /\ recent_videos[3].video_id = VideoId(1)

-----------------------------------------------------------------------------
\* Properties of the chunks of the statistics calls

RECURSIVE Concatenated(_)
\* the id lists of the calls, one after the other
Concatenated(lists) ==
    IF lists = <<>> THEN <<>> ELSE Head(lists) \o Concatenated(Tail(lists))

\* the calls that carry the id
CallsWith(id) ==
    {c \in 1..Len(stats_calls) :
        \E k \in 1..Len(stats_calls[c]) : stats_calls[c][k] = id}

\* C27: every statistics call carries at least 1 and at most 50 ids; the
\* calls taken in order make up the filtered id list from its start, and
\* all of it once the step is through, every id in exactly one call; for an
\* empty list no call is issued and video_stats is an empty list.
C27_ChunksOfAtMostFifty ==
    pc \in {"stats", "stats_done", "failed"} =>
        /\ \A c \in 1..Len(stats_calls) :
              Len(stats_calls[c]) >= 1 /\ Len(stats_calls[c]) <= 50
        /\ LET sent == Concatenated(stats_calls)
           IN  /\ Len(sent) <= Len(video_ids)
               /\ sent = SubSeq(video_ids, 1, Len(sent))
        /\ pc = "stats_done" =>
              /\ Concatenated(stats_calls) = video_ids
              /\ \A k \in 1..Len(video_ids) : Cardinality(CallsWith(video_ids[k])) = 1
        /\ video_ids = <<>> =>
              /\ stats_calls = <<>>
              /\ pc = "stats_done" => response_video_stats = [items |-> <<>>]

\* 101 ids went out in three calls of 50, 50 and 1
C27_Witness ==
    /\ pc = "stats_done"
    /\ Len(video_ids) = 101
    /\ Len(stats_calls) = 3
    /\ Len(stats_calls[1]) = 50
    /\ Len(stats_calls[2]) = 50
    /\ stats_calls[3] = <<101>>

====
